---- MODULE Spec2Model ----
(***************************************************************************)
(* Model of package sse (sse.go): Upgrade, the Connection and              *)
(* MessageBuilder operations called by producer goroutines, and the writer *)
(* goroutine spawned by Upgrade.  Strings and byte slices are sequences of *)
(* one-character strings.  Unbuffered channel operations are rendezvous    *)
(* steps between the sending goroutine and the writer goroutine's select.  *)
(***************************************************************************)
EXTENDS Integers, Sequences, FiniteSets, TLC

\* ---------------------------------------------------------------- bounds
Producers == {"p1", "p2"}

\* number of send() calls, over all producers, that pass the isOpen check
MaxSends == 2

\* number of transport writes that fail while one message is written
MaxFail == 1

\* number of BuildMessage calls (the Connection's own Send* calls, which build
\* a message of their own, are not counted)
MaxBuilds == 1

\* ------------------------------------------------------- input alphabets
\* values given to WithId / WithEvent ("" is a legal argument)
Ids == {<<>>, <<"7">>}

Events == {<<>>, <<"e">>}

\* contents of strings and byte slices given to SendString / SendBytes
Payloads == {<<"x">>}

\* what a producer overwrites its byte slice with
Overwrites == {<<"x">>, <<"y">>}

\* values given to SendJson: a map[string]string{"k":"v"} and a chan int
JsonMap == [t |-> "map", k |-> <<"k">>, v |-> <<"v">>]

JsonChan == [t |-> "chan", k |-> <<>>, v |-> <<>>]

JsonValues == {JsonMap, JsonChan}

\* ------------------------------------------------------------- constants
Nil == "nil"

\* no Send* call returned in the step just taken
NoReturn == "none"

NoTag == [p |-> "none", n |-> 0, afterClose |-> FALSE]

ErrClosed == "connection is closed"

ErrStreaming == "streaming not supported"

ErrMarshal == "json: unsupported type"

SSEHeaders == {<<"Content-Type", "text/event-stream">>,
               <<"Cache-Control", "no-cache">>,
               <<"Connection", "keep-alive">>}

FmtId == <<"i", "d", ":", " ", "%s", "\n">>

FmtEvent == <<"e", "v", "e", "n", "t", ":", " ", "%s", "\n">>

FmtData == <<"d", "a", "t", "a", ":", " ", "%s", "\n", "\n">>

VARIABLES
    canFlush,       \* the ResponseWriter given to Upgrade implements http.Flusher
    upPc,           \* position of the Upgrade call
    ret,            \* what Upgrade returned: [conn, err]
    chans,          \* channels made by Upgrade
    sseConnection,  \* the Connection struct made by Upgrade
    headers,        \* writer.Header()
    ctxDone,        \* request.Context().Done() is closed
    wl,             \* position of the writer goroutine
    cur,            \* message received by the writer goroutine
    wire,           \* Write calls made for the message in cur, in order
    stale,          \* producers that do not yet observe the write of isOpen
    pc,             \* position of each producer
    bld,            \* the MessageBuilder's *Message held by each producer
    pend,           \* the *Message each producer's pending send() was given, and
                    \* whether a Close() had returned when send() was called
    buf,            \* the byte slice each producer passed to SendBytes
    last,           \* the error a Send* call returned in the step just taken
    seq,            \* send() calls of each producer that passed the check
    closeRet,       \* some Close() call has returned
    committed,      \* the response headers as the first Flush or Write sent them,
                    \* and which of the two it was
    done,           \* messages of each producer written and flushed
    built           \* BuildMessage calls so far

vars == <<canFlush, upPc, ret, chans, sseConnection, headers, ctxDone, wl, cur,
          wire, stale, pc, bld, pend, buf, seq, closeRet, committed, done,
          built>>

upVars == <<canFlush, upPc, ret, chans, headers>>

prodVars == <<pc, bld, pend, buf, seq, closeRet, built>>

\* --------------------------------------------------------- pure functions
RECURSIVE Sprintf(_, _)
\* fmt.Fprintf's formatting of a format with one %s verb
Sprintf(format, arg) ==
    IF format = <<>> THEN <<>>
    ELSE (IF Head(format) = "%s" THEN arg ELSE <<Head(format)>>)
             \o Sprintf(Tail(format), arg)

Quote(s) == <<"\"">> \o s \o <<"\"">>

\* json.Marshal on the values of JsonValues
Marshal(v) ==
    IF v.t = "map"
    THEN [err |-> Nil,
          bytes |-> <<"{">> \o Quote(v.k) \o <<":">> \o Quote(v.v) \o <<"}">>]
    ELSE [err |-> ErrMarshal, bytes |-> <<>>]

\* no *Message: the producer holds no MessageBuilder
NoMessage == [id |-> <<>>, event |-> <<>>, data |-> [ref |-> "none", bytes |-> <<>>]]

\* no send() call of the producer is pending
NoPending == [id |-> <<>>, event |-> <<>>, data |-> [ref |-> "none", bytes |-> <<>>],
              afterClose |-> FALSE]

\* no Connection allocated
NoConnection == [made |-> FALSE, isOpen |-> FALSE]

\* &Message{}
NewMessage == [id |-> <<>>, event |-> <<>>, data |-> [ref |-> "nil", bytes |-> <<>>]]

\* a []byte with its own backing array
OwnSlice(bytes) == [ref |-> "own", bytes |-> bytes]

\* a []byte sharing the backing array of producer p's slice
SharedSlice(p) == [ref |-> p, bytes |-> <<>>]

\* the bytes a slice holds now
Bytes(slice) == IF slice.ref \in Producers THEN buf[slice.ref] ELSE slice.bytes

\* connection.isOpen as producer p reads it: the field is a plain bool written
\* by the writer goroutine without synchronisation, so p may still see the
\* value from before the write
IsOpen(p) == IF p \in stale THEN TRUE ELSE sseConnection.isOpen

\* the writer goroutine holds no message
NoCur == [id |-> <<>>, event |-> <<>>, data |-> [ref |-> "none", bytes |-> <<>>],
          tag |-> NoTag]

\* mutant of HasId: the id line is written whatever the id holds
HasId_Always(message) == TRUE

HasId(message) == Len(message.id) > 0

HasEvent(message) == Len(message.event) > 0

TotalSends == seq["p1"] + seq["p2"]

\* ------------------------------------------------------------------ Init
Init ==
    /\ canFlush \in BOOLEAN
    /\ upPc = "assert"
    /\ ret = [conn |-> "pending", err |-> "pending"]
    /\ chans = {}
    /\ sseConnection = NoConnection
    /\ headers = {}
    /\ ctxDone = FALSE
    /\ wl = "none"
    /\ cur = NoCur
    /\ wire = <<>>
    /\ stale = {}
    /\ pc = [p \in Producers |-> "ready"]
    /\ bld = [p \in Producers |-> NoMessage]
    /\ pend = [p \in Producers |-> NoPending]
    /\ buf = [p \in Producers |-> <<>>]
    /\ last = NoReturn
    /\ seq = [p \in Producers |-> 0]
    /\ closeRet = FALSE
    /\ committed = [sent |-> FALSE, by |-> "none", hdrs |-> {}]
    /\ done = [p \in Producers |-> 0]
    /\ built = 0

\* --------------------------------------------------------------- Upgrade
\* mutant of UpgradeAssert: the headers are set before the assertion is checked
UpgradeAssert_HeadersFirst ==
    /\ upPc = "assert"
    /\ headers' = SSEHeaders
    /\ IF canFlush
       THEN /\ upPc' = "make"
            /\ UNCHANGED ret
       ELSE /\ upPc' = "returned"
            /\ ret' = [conn |-> Nil, err |-> ErrStreaming]
    /\ UNCHANGED <<canFlush, chans, sseConnection, ctxDone, wl, cur,
                   wire, stale, committed, done>>
    /\ UNCHANGED prodVars
    /\ last' = NoReturn

\* flusher, ok := writer.(http.Flusher); if !ok { return nil, errors.New(...) }
UpgradeAssert ==
    /\ upPc = "assert"
    /\ IF canFlush
       THEN /\ upPc' = "make"
            /\ UNCHANGED ret
       ELSE /\ upPc' = "returned"
            /\ ret' = [conn |-> Nil, err |-> ErrStreaming]
    /\ UNCHANGED <<canFlush, chans, headers, sseConnection, ctxDone, wl, cur,
                   wire, stale, committed, done>>
    /\ UNCHANGED prodVars
    /\ last' = NoReturn

\* the three make(chan ...) and sseConnection := &Connection{..., isOpen: true}
UpgradeMake ==
    /\ upPc = "make"
    /\ upPc' = "headers"
    /\ chans' = {"errors", "messages", "shutdown"}
    /\ sseConnection' = [made |-> TRUE, isOpen |-> TRUE]
    /\ UNCHANGED <<canFlush, ret, headers, ctxDone, wl, cur, wire, stale,
                   committed, done>>
    /\ UNCHANGED prodVars
    /\ last' = NoReturn

\* http.Header.Set: replaces whatever the key held
HeaderSet(h, key, value) == {kv \in h : kv[1] # key} \cup {<<key, value>>}

\* the three writer.Header().Set calls
UpgradeHeaders ==
    /\ upPc = "headers"
    /\ upPc' = "flush"
    /\ headers' = HeaderSet(HeaderSet(HeaderSet(headers,
                      "Content-Type", "text/event-stream"),
                      "Cache-Control", "no-cache"),
                      "Connection", "keep-alive")
    /\ UNCHANGED <<canFlush, ret, chans, sseConnection, ctxDone, wl, cur, wire,
                   stale, committed, done>>
    /\ UNCHANGED prodVars
    /\ last' = NoReturn

\* the first Flush or Write on the ResponseWriter sends the headers as they are
Commit(c, by) == IF c.sent THEN c ELSE [sent |-> TRUE, by |-> by, hdrs |-> headers]

\* a call of writer.Write made by fmt.Fprintf: the bytes given, whether the
\* call succeeded, and where handleError reported the failure
WriteCall(bytes, ok, report) == [bytes |-> bytes, ok |-> ok, report |-> report]

\* mutant of UpgradeFlush: Upgrade goes on without the flush
UpgradeFlush_Skip ==
    /\ upPc = "flush"
    /\ upPc' = "go"
    /\ UNCHANGED <<canFlush, ret, chans, sseConnection, headers, ctxDone, wl,
                   cur, wire, stale, committed, done>>
    /\ UNCHANGED prodVars
    /\ last' = NoReturn

\* the flusher.Flush() after the headers
UpgradeFlush ==
    /\ upPc = "flush"
    /\ upPc' = "go"
    /\ committed' = Commit(committed, "flush")
    /\ UNCHANGED <<canFlush, ret, chans, sseConnection, headers, ctxDone, wl,
                   cur, wire, stale, done>>
    /\ UNCHANGED prodVars
    /\ last' = NoReturn

\* go func() { for { select ... } }()
UpgradeGo ==
    /\ upPc = "go"
    /\ upPc' = "return"
    /\ wl' = "select"
    /\ UNCHANGED <<canFlush, ret, chans, sseConnection, headers, ctxDone, cur,
                   wire, stale, committed, done>>
    /\ UNCHANGED prodVars
    /\ last' = NoReturn

\* return sseConnection, nil
UpgradeReturn ==
    /\ upPc = "return"
    /\ upPc' = "returned"
    /\ ret' = [conn |-> "sseConnection", err |-> Nil]
    /\ UNCHANGED <<canFlush, chans, sseConnection, headers, ctxDone, wl, cur,
                   wire, stale, committed, done>>
    /\ UNCHANGED prodVars
    /\ last' = NoReturn

Upgrade ==
    \/ UpgradeAssert
    \/ UpgradeMake
    \/ UpgradeHeaders
    \/ UpgradeFlush
    \/ UpgradeGo
    \/ UpgradeReturn

\* ----------------------------------------------------------- environment
\* the client disconnects or the server shuts down: the request context is done
CtxDone ==
    /\ ~ctxDone
    /\ ctxDone' = TRUE
    /\ UNCHANGED <<canFlush, upPc, ret, chans, sseConnection, headers, wl, cur,
                   wire, stale, committed, done>>
    /\ UNCHANGED prodVars
    /\ last' = NoReturn

\* the write of isOpen by the writer goroutine becomes visible to producer p
Sync(p) ==
    /\ p \in stale
    /\ stale' = stale \ {p}
    /\ UNCHANGED <<canFlush, upPc, ret, chans, sseConnection, headers, ctxDone,
                   wl, cur, wire, committed, done>>
    /\ UNCHANGED prodVars
    /\ last' = NoReturn

\* ------------------------------------------------------------- producers
\* a producer holds the Connection once Upgrade has returned it
HasConnection == ret.conn = "sseConnection"

Ready(p) == HasConnection /\ pc[p] = "ready"

\* connection.BuildMessage()
BuildMessage(p) ==
    /\ Ready(p)
    /\ built < MaxBuilds
    /\ built' = built + 1
    /\ bld' = [bld EXCEPT ![p] = NewMessage]
    /\ UNCHANGED <<pc, pend, buf, seq, closeRet>>
    /\ UNCHANGED <<sseConnection, ctxDone, wl, cur, wire, stale, committed, done>>
    /\ UNCHANGED upVars
    /\ last' = NoReturn

\* messageBuilder.WithId(id)
WithId(p, id) ==
    /\ Ready(p)
    /\ bld[p] # NoMessage
    /\ bld' = [bld EXCEPT ![p].id = id]
    /\ UNCHANGED <<pc, pend, buf, seq, closeRet, built>>
    /\ UNCHANGED <<sseConnection, ctxDone, wl, cur, wire, stale, committed, done>>
    /\ UNCHANGED upVars
    /\ last' = NoReturn

\* messageBuilder.WithEvent(event)
WithEvent(p, event) ==
    /\ Ready(p)
    /\ bld[p] # NoMessage
    /\ bld' = [bld EXCEPT ![p].event = event]
    /\ UNCHANGED <<pc, pend, buf, seq, closeRet, built>>
    /\ UNCHANGED <<sseConnection, ctxDone, wl, cur, wire, stale, committed, done>>
    /\ UNCHANGED upVars
    /\ last' = NoReturn

\* connection.send(message), up to the channel send.  message is the *Message
\* with its data set by the Send* that calls send; nothing reads that data field
\* again before the next Send* overwrites it, so bld keeps it nil
send(p, message) ==
    /\ IF ~IsOpen(p)
       THEN /\ last' = ErrClosed
            /\ UNCHANGED <<pc, pend, seq>>
       ELSE /\ TotalSends < MaxSends
            /\ pc' = [pc EXCEPT ![p] = "sending"]
            /\ pend' = [pend EXCEPT ![p] =
                          [id |-> message.id, event |-> message.event,
                           data |-> message.data, afterClose |-> closeRet]]
            /\ seq' = [seq EXCEPT ![p] = @ + 1]
            /\ last' = NoReturn
    /\ UNCHANGED <<bld, closeRet, built>>
    /\ UNCHANGED <<sseConnection, ctxDone, wl, cur, wire, stale, committed, done>>
    /\ UNCHANGED upVars

\* messageBuilder.SendBytes(data) on the builder's message: the message shares
\* the caller's slice, which the model tracks while a message refers to it
SendBytesOn(p, message, data) ==
    /\ buf' = IF IsOpen(p) THEN [buf EXCEPT ![p] = data] ELSE buf
    /\ send(p, [message EXCEPT !.data = SharedSlice(p)])

\* messageBuilder.SendString(data) on the builder's message
SendStringOn(p, message, data) ==
    /\ send(p, [message EXCEPT !.data = OwnSlice(data)])
    /\ UNCHANGED buf

\* mutant of SendJsonOn: the error of json.Marshal is dropped
SendJsonOn_IgnoreErr(p, message, data) ==
    /\ send(p, [message EXCEPT !.data = OwnSlice(Marshal(data).bytes)])
    /\ UNCHANGED buf

\* messageBuilder.SendJson(data) on the builder's message
SendJsonOn(p, message, data) ==
    IF Marshal(data).err # Nil
    THEN /\ last' = Marshal(data).err
         /\ UNCHANGED <<pc, bld, pend, buf, seq, closeRet, built>>
         /\ UNCHANGED <<sseConnection, ctxDone, wl, cur, wire, stale, committed, done>>
         /\ UNCHANGED upVars
    ELSE /\ send(p, [message EXCEPT !.data = OwnSlice(Marshal(data).bytes)])
         /\ UNCHANGED buf

SendBytes(p, data) == Ready(p) /\ bld[p] # NoMessage /\ SendBytesOn(p, bld[p], data)

SendString(p, data) == Ready(p) /\ bld[p] # NoMessage /\ SendStringOn(p, bld[p], data)

SendJson(p, data) == Ready(p) /\ bld[p] # NoMessage /\ SendJsonOn(p, bld[p], data)

\* connection.SendBytes(data): connection.BuildMessage().SendBytes(data)
ConnSendBytes(p, data) == Ready(p) /\ SendBytesOn(p, NewMessage, data)

\* connection.SendString(data)
ConnSendString(p, data) == Ready(p) /\ SendStringOn(p, NewMessage, data)

\* connection.SendJson(data)
ConnSendJson(p, data) == Ready(p) /\ SendJsonOn(p, NewMessage, data)

\* mutant of Close: Close() returns at once, whether the loop takes the signal
\* or not
Close_NonBlocking(p) ==
    /\ Ready(p)
    /\ closeRet' = TRUE
    /\ UNCHANGED <<pc, bld, pend, buf, seq, built>>
    /\ UNCHANGED <<sseConnection, ctxDone, wl, cur, wire, stale, committed, done>>
    /\ UNCHANGED upVars
    /\ last' = NoReturn

\* mutant of Close: Close() marks the connection closed
Close_MarksClosed(p) ==
    /\ Ready(p)
    /\ pc' = [pc EXCEPT ![p] = "closing"]
    /\ sseConnection' = [sseConnection EXCEPT !.isOpen = FALSE]
    /\ UNCHANGED <<bld, pend, buf, seq, closeRet, built>>
    /\ UNCHANGED <<ctxDone, wl, cur, wire, stale, committed, done>>
    /\ UNCHANGED upVars
    /\ last' = NoReturn

\* connection.Close(), up to the channel send
Close(p) ==
    /\ Ready(p)
    /\ pc' = [pc EXCEPT ![p] = "closing"]
    /\ UNCHANGED <<bld, pend, buf, seq, closeRet, built>>
    /\ UNCHANGED <<sseConnection, ctxDone, wl, cur, wire, stale, committed, done>>
    /\ UNCHANGED upVars
    /\ last' = NoReturn

\* the producer overwrites the byte slice it passed to SendBytes
MutateSlice(p, data) ==
    /\ Ready(p)
    /\ buf[p] # <<>>
    /\ data # buf[p]
    /\ buf' = [buf EXCEPT ![p] = data]
    /\ UNCHANGED <<pc, bld, pend, seq, closeRet, built>>
    /\ UNCHANGED <<sseConnection, ctxDone, wl, cur, wire, stale, committed, done>>
    /\ UNCHANGED upVars
    /\ last' = NoReturn

\* ------------------------------------------------------- writer goroutine
\* where the loop goes after the id step, and after the event step
AfterId(message) == IF HasEvent(message) THEN "event" ELSE "data"

AfterRecv(message) == IF HasId(message) THEN "id" ELSE AfterId(message)

\* mutant of RecvMessage: a message is received while the one before is still
\* being written
RecvMessage_Eager(p) ==
    /\ wl \in {"select", "id", "event", "data", "flush"}
    /\ pc[p] = "sending"
    /\ cur' = [id |-> pend[p].id, event |-> pend[p].event, data |-> pend[p].data,
               tag |-> [p |-> p, n |-> seq[p], afterClose |-> pend[p].afterClose]]
    /\ wl' = AfterRecv(pend[p])
    /\ pc' = [pc EXCEPT ![p] = "ready"]
    /\ pend' = [pend EXCEPT ![p] = NoPending]
    /\ last' = Nil
    /\ UNCHANGED <<bld, buf, seq, closeRet, built>>
    /\ UNCHANGED <<sseConnection, ctxDone, wire, stale, committed, done>>
    /\ UNCHANGED upVars

\* case message := <-messageChannel, meeting p's connection.messages <- *message;
\* send() then returns nil
RecvMessage(p) ==
    /\ wl = "select"
    /\ pc[p] = "sending"
    /\ cur' = [id |-> pend[p].id, event |-> pend[p].event, data |-> pend[p].data,
               tag |-> [p |-> p, n |-> seq[p], afterClose |-> pend[p].afterClose]]
    /\ wl' = AfterRecv(pend[p])
    /\ pc' = [pc EXCEPT ![p] = "ready"]
    /\ pend' = [pend EXCEPT ![p] = NoPending]
    /\ last' = Nil
    /\ UNCHANGED <<bld, buf, seq, closeRet, built>>
    /\ UNCHANGED <<sseConnection, ctxDone, wire, stale, committed, done>>
    /\ UNCHANGED upVars

\* mutant of RecvShutdown: the shutdown signal ends the loop
RecvShutdown_Stops(p) ==
    /\ wl = "select"
    /\ pc[p] = "closing"
    /\ pc' = [pc EXCEPT ![p] = "ready"]
    /\ closeRet' = TRUE
    /\ sseConnection' = [sseConnection EXCEPT !.isOpen = FALSE]
    /\ stale' = Producers
    /\ wl' = "stopped"
    /\ UNCHANGED <<bld, pend, buf, seq, built>>
    /\ UNCHANGED <<ctxDone, cur, wire, committed, done>>
    /\ UNCHANGED upVars
    /\ last' = NoReturn

\* case <-shutdownChannel, meeting p's connection.shutdown <- true;
\* Close() then returns
RecvShutdown(p) ==
    /\ wl = "select"
    /\ pc[p] = "closing"
    /\ pc' = [pc EXCEPT ![p] = "ready"]
    /\ closeRet' = TRUE
    /\ UNCHANGED <<bld, pend, buf, seq, built>>
    /\ UNCHANGED <<sseConnection, ctxDone, wl, cur, wire, stale, committed, done>>
    /\ UNCHANGED upVars
    /\ last' = NoReturn

\* mutant of RecvDone: the loop lets the pending send() calls return when it
\* stops
RecvDone_ReleasesSenders ==
    /\ wl = "select"
    /\ ctxDone
    /\ sseConnection' = [sseConnection EXCEPT !.isOpen = FALSE]
    /\ stale' = Producers
    /\ wl' = "stopped"
    /\ pc' = [p \in Producers |-> IF pc[p] = "sending" THEN "ready" ELSE pc[p]]
    /\ pend' = [p \in Producers |-> NoPending]
    /\ UNCHANGED <<bld, buf, seq, closeRet, built>>
    /\ UNCHANGED <<ctxDone, cur, wire, committed, done>>
    /\ UNCHANGED upVars
    /\ last' = NoReturn

\* mutant of RecvDone: the done signal is seen in the middle of a message too
RecvDone_MidMessage ==
    /\ wl \in {"select", "id", "event", "data", "flush"}
    /\ ctxDone
    /\ sseConnection' = [sseConnection EXCEPT !.isOpen = FALSE]
    /\ stale' = Producers
    /\ wl' = "stopped"
    /\ UNCHANGED <<ctxDone, cur, wire, committed, done>>
    /\ UNCHANGED upVars
    /\ UNCHANGED prodVars
    /\ last' = NoReturn

\* mutant of RecvDone: the loop returns without the store to isOpen
RecvDone_NoStore ==
    /\ wl = "select"
    /\ ctxDone
    /\ wl' = "stopped"
    /\ UNCHANGED <<sseConnection, stale, ctxDone, cur, wire, committed, done>>
    /\ UNCHANGED upVars
    /\ UNCHANGED prodVars
    /\ last' = NoReturn

\* case <-request.Context().Done(): sseConnection.isOpen = false; return
RecvDone ==
    /\ wl = "select"
    /\ ctxDone
    /\ sseConnection' = [sseConnection EXCEPT !.isOpen = FALSE]
    /\ stale' = Producers
    /\ wl' = "stopped"
    /\ UNCHANGED <<ctxDone, cur, wire, committed, done>>
    /\ UNCHANGED upVars
    /\ UNCHANGED prodVars
    /\ last' = NoReturn

\* Write calls for the current message that failed
nfail == Cardinality({i \in 1..Len(wire) : ~wire[i].ok})

\* handleError(err): nothing for a nil err; otherwise the select sends err on
\* the error channel if a receiver is waiting there, else logs it
handleError(ok, waiting) == IF ok THEN "none" ELSE IF waiting THEN "chan" ELSE "log"

\* mutant of Fprintf: handleError has no default case, so that the loop waits
\* on the error channel when no receiver is there
Fprintf_BlockingSend(format, arg, next) ==
    /\ \E ok \in BOOLEAN, waiting \in BOOLEAN :
          /\ ~ok => nfail < MaxFail
          /\ ok => ~waiting
          /\ wire' = Append(wire, WriteCall(Sprintf(format, arg), ok,
                                            handleError(ok, waiting)))
          /\ wl' = IF handleError(ok, waiting) = "log" THEN "blocked" ELSE next
    /\ committed' = Commit(committed, "write")
    /\ UNCHANGED <<sseConnection, ctxDone, cur, stale, done>>
    /\ UNCHANGED upVars
    /\ last' = NoReturn

\* mutant of Fprintf: the error of a failed write is what the producer's Send*
\* returns
Fprintf_Propagate(format, arg, next) ==
    /\ \E ok \in BOOLEAN, waiting \in BOOLEAN :
          /\ ~ok => nfail < MaxFail
          /\ ok => ~waiting
          /\ wire' = Append(wire, WriteCall(Sprintf(format, arg), ok,
                                            handleError(ok, waiting)))
          /\ last' = IF ok THEN NoReturn ELSE "write failed"
    /\ committed' = Commit(committed, "write")
    /\ wl' = next
    /\ UNCHANGED <<sseConnection, ctxDone, cur, stale, done>>
    /\ UNCHANGED upVars

\* _, err = fmt.Fprintf(writer, format, arg); handleError(err)
\* the write fails or not, and a receiver waits on the error channel or not
Fprintf(format, arg, next) ==
    /\ \E ok \in BOOLEAN, waiting \in BOOLEAN :
          /\ ~ok => nfail < MaxFail
          /\ ok => ~waiting
          /\ wire' = Append(wire, WriteCall(Sprintf(format, arg), ok,
                                            handleError(ok, waiting)))
    /\ committed' = Commit(committed, "write")
    /\ wl' = next
    /\ UNCHANGED <<sseConnection, ctxDone, cur, stale, done>>
    /\ UNCHANGED upVars
    /\ last' = NoReturn

\* if len(message.id) > 0 { Fprintf(writer, "id: %s\n", message.id) ... }
WriteId ==
    /\ wl = "id"
    /\ Fprintf(FmtId, cur.id, AfterId(cur))
    /\ UNCHANGED prodVars

\* if len(message.event) > 0 { Fprintf(writer, "event: %s\n", message.event) ... }
WriteEvent ==
    /\ wl = "event"
    /\ Fprintf(FmtEvent, cur.event, "data")
    /\ UNCHANGED prodVars

\* mutant of WriteData: the loop goes back to the select without the flush
WriteData_NoFlush ==
    /\ wl = "data"
    /\ Fprintf(FmtData, Bytes(cur.data), "select")
    /\ buf' = IF cur.data.ref \in Producers /\ pend[cur.data.ref].data.ref = "none"
              THEN [buf EXCEPT ![cur.data.ref] = <<>>] ELSE buf
    /\ UNCHANGED <<pc, bld, pend, seq, closeRet, built>>

\* Fprintf(writer, "data: %s\n\n", message.data); the writer goroutine then holds
\* the last reference to a slice passed to SendBytes
WriteData ==
    /\ wl = "data"
    /\ Fprintf(FmtData, Bytes(cur.data), "flush")
    /\ buf' = IF cur.data.ref \in Producers /\ pend[cur.data.ref].data.ref = "none"
              THEN [buf EXCEPT ![cur.data.ref] = <<>>] ELSE buf
    /\ UNCHANGED <<pc, bld, pend, seq, closeRet, built>>

\* flusher.Flush(), then back to the select
Flush ==
    /\ wl = "flush"
    /\ committed' = Commit(committed, "flush")
    /\ done' = [done EXCEPT ![cur.tag.p] = @ + 1]
    /\ wire' = <<>>
    /\ wl' = "select"
    /\ cur' = NoCur
    /\ UNCHANGED <<sseConnection, ctxDone, stale>>
    /\ UNCHANGED upVars
    /\ UNCHANGED prodVars
    /\ last' = NoReturn

WriterLoop ==
    \/ \E p \in Producers : RecvMessage(p)
    \/ \E p \in Producers : RecvShutdown(p)
    \/ RecvDone
    \/ WriteId
    \/ WriteEvent
    \/ WriteData
    \/ Flush

Producer(p) ==
    \/ BuildMessage(p)
    \/ \E id \in Ids : WithId(p, id)
    \/ \E event \in Events : WithEvent(p, event)
    \/ \E data \in Payloads : SendBytes(p, data)
    \/ \E data \in Payloads : SendString(p, data)
    \/ \E data \in JsonValues : SendJson(p, data)
    \/ \E data \in Payloads : ConnSendBytes(p, data)
    \/ \E data \in Payloads : ConnSendString(p, data)
    \/ \E data \in JsonValues : ConnSendJson(p, data)
    \/ Close(p)
    \/ \E data \in Overwrites : MutateSlice(p, data)
    \/ Sync(p)

Next ==
    \/ Upgrade
    \/ CtxDone
    \/ WriterLoop
    \/ \E p \in Producers : Producer(p)

Spec == Init /\ [][Next]_vars

\* The writer goroutine and Upgrade keep running; a select case that is ready
\* again and again is chosen in the end (select picks among the ready cases
\* uniformly at random); a write of isOpen reaches every goroutine in the end.
Fairness ==
    /\ WF_vars(Upgrade)
    /\ WF_vars(WriteId \/ WriteEvent \/ WriteData \/ Flush)
    /\ SF_vars(RecvDone)
    /\ \A p \in Producers : SF_vars(RecvMessage(p))
    /\ \A p \in Producers : SF_vars(RecvShutdown(p))
    /\ \A p \in Producers : WF_vars(Sync(p))

\* The liveness claims are about the loop's control flow, which does not depend
\* on what a message holds: they are checked for producers that use the
\* Connection's own Send* functions and Close, whose messages have no id and no
\* event, so that the loop goes from the receive to the data line.
LiveProducer(p) ==
    \/ \E data \in Payloads : ConnSendBytes(p, data)
    \/ \E data \in Payloads : ConnSendString(p, data)
    \/ \E data \in JsonValues : ConnSendJson(p, data)
    \/ Close(p)
    \/ \E data \in Overwrites : MutateSlice(p, data)
    \/ Sync(p)

LiveWriterLoop ==
    \/ \E p \in Producers : RecvMessage(p)
    \/ \E p \in Producers : RecvShutdown(p)
    \/ RecvDone
    \/ WriteData
    \/ Flush

LiveNext ==
    \/ Upgrade
    \/ CtxDone
    \/ LiveWriterLoop
    \/ \E p \in Producers : LiveProducer(p)

FairSpec == Init /\ [][LiveNext]_vars /\ Fairness

\* ---------------------------------------------------------------- claims
Running == {"select", "id", "event", "data", "flush"}

\* C1: a send() call that starts after the writer loop has set isOpen to false
\* does not get to the channel send: it returns "connection is closed".
C1_LateSendFails ==
    [][\A p \in Producers :
          (sseConnection.made /\ ~sseConnection.isOpen /\ pc[p] = "ready")
              => pc'[p] # "sending"]_vars

\* C2: a producer that waits on the channel send when the request context is
\* done gets out of send() in the end.
C2_PendingSendReturns ==
    \A p \in Producers :
        (pc[p] = "sending" /\ ctxDone /\ wl \in Running) ~> (pc[p] # "sending")

\* C3: once the request context is done (and Upgrade is on its way to succeed),
\* the writer loop stops and IsOpen() reports false to every producer in the end.
C3_IsOpenEventuallyFalse ==
    (ctxDone /\ canFlush) ~>
        (wl = "stopped" /\ \A p \in Producers : ~IsOpen(p))

C3_Witness ==
    /\ wl = "stopped"
    /\ \A p \in Producers : ~IsOpen(p)
    /\ pc["p1"] = "sending"
    /\ pc["p2"] = "closing"

\* C4: when the writer loop writes a message of a producer, every message that
\* producer sent before it has been written to the end and flushed.
C4_SameProducerOrder ==
    \A p \in Producers :
        cur.tag.p = p => (done[p] = cur.tag.n - 1 /\ cur.tag.n <= seq[p])

C4_Witness ==
    /\ cur.tag.n = 2
    /\ wire # <<>>
    /\ \E q \in Producers \ {cur.tag.p} : pc[q] = "closing"

\* C5: only the writer goroutine (and Upgrade's own flush) calls the transport,
\* no step of a producer does; the loop takes a message only between messages,
\* when the one before has been written and flushed; the loop is started once.
C5_SingleWriter ==
    [][ /\ (wire' # wire \/ committed' # committed)
             => /\ pc' = pc /\ pend' = pend /\ bld' = bld
                /\ wl \in {"id", "event", "data", "flush"} \/ upPc = "flush"
        /\ cur' # cur
             => \/ wl = "select" /\ cur = NoCur /\ wire = <<>>
                \/ wl = "flush" /\ cur' = NoCur /\ wire' = <<>>
        /\ (wl = "none" /\ wl' # "none") => upPc = "go"
        /\ wl # "none" => wl' # "none" ]_vars

C5_Witness ==
    /\ cur.tag.p = "p1"
    /\ Len(wire) = 2
    /\ done["p2"] = 1

NL == <<"\n">>

IdLine(id) == <<"i", "d", ":", " ">> \o id \o NL

EventLine(event) == <<"e", "v", "e", "n", "t", ":", " ">> \o event \o NL

DataLine(data) == <<"d", "a", "t", "a", ":", " ">> \o data \o NL

\* the Write calls expected for a message whose data slice holds data
IdPart(message) == IF message.id # <<>> THEN <<IdLine(message.id)>> ELSE <<>>

EventPart(message) == IF message.event # <<>> THEN <<EventLine(message.event)>> ELSE <<>>

DataPart(data) == <<DataLine(data) \o NL>>

\* the bytes given to the Write calls for the current message
Written == [i \in 1..Len(wire) |-> wire[i].bytes]

\* what the data slice of a message can hold when the loop writes it
DataOf(message) ==
    IF message.data.ref \in Producers THEN Overwrites ELSE {message.data.bytes}

\* C6: the loop writes the id line iff id is not empty, then the event line iff
\* event is not empty, then the data line and a blank line, and nothing else.
C6_WireFormat ==
    /\ wl = "id" => (cur.id # <<>> /\ Written = <<>>)
    /\ wl = "event" => (cur.event # <<>> /\ Written = IdPart(cur))
    /\ wl = "data" => Written = IdPart(cur) \o EventPart(cur)
    /\ wl = "flush" =>
          \E data \in DataOf(cur) :
              Written = IdPart(cur) \o EventPart(cur) \o DataPart(data)
    /\ wl \notin {"id", "event", "data", "flush"} => Written = <<>>

C6_Witness ==
    /\ wl = "flush"
    /\ cur.id = <<>>
    /\ cur.event # <<>>
    /\ Len(wire) = 2

C8_NoFlusher ==
    /\ ~canFlush => upPc \in {"assert", "returned"}
    /\ (~canFlush /\ upPc = "returned")
          => /\ ret = [conn |-> Nil, err |-> ErrStreaming]
             /\ headers = {}
             /\ ~committed.sent
             /\ chans = {}
             /\ sseConnection = NoConnection
             /\ wl = "none"
             /\ wire = <<>>

C8_Witness ==
    /\ ret.err = ErrStreaming
    /\ ctxDone

\* the data slices a Send* can hand to send()
SentSlices ==
    {OwnSlice(data) : data \in Payloads} \cup {OwnSlice(Marshal(JsonMap).bytes)}
        \cup {SharedSlice(p) : p \in Producers}

\* C9: a SendJson that returns the encoding error changes nothing else, and no
\* message made from a value that cannot be serialized is pending or written.
C9_SendJsonError ==
    /\ [][ last' = ErrMarshal
             => /\ pc' = pc /\ pend' = pend /\ seq' = seq
                /\ wire' = wire /\ cur' = cur /\ committed' = committed
                /\ sseConnection' = sseConnection /\ wl' = wl ]_vars
    /\ [](\A p \in Producers : pc[p] = "sending" => pend[p].data \in SentSlices)
    /\ [](wl \in {"id", "event", "data"} => cur.data \in SentSlices)

C9_Witness ==
    /\ last = ErrMarshal
    /\ wl = "stopped"
    /\ ~sseConnection.isOpen

\* C10, as claimed: when Upgrade returns the Connection, the three headers are
\* set and flushed, isOpen is true and the writer loop is running.
C10_ReturnedOpen ==
    [][ (ret.conn # "sseConnection" /\ ret'.conn = "sseConnection")
            => /\ committed' = [sent |-> TRUE, by |-> "flush", hdrs |-> SSEHeaders]
               /\ sseConnection'.isOpen
               /\ wl' \in Running ]_vars

\* C10, amended: when Upgrade returns the Connection, the three headers are set
\* and flushed and no message byte is written yet, and isOpen is true and the
\* writer loop running unless the request context is done by then.
C10_ReturnedFlushed ==
    /\ [][ (ret.conn # "sseConnection" /\ ret'.conn = "sseConnection")
             => /\ committed' = [sent |-> TRUE, by |-> "flush", hdrs |-> SSEHeaders]
                /\ wire' = <<>> /\ cur' = NoCur
                /\ \A p \in Producers : done'[p] = 0
                /\ ctxDone' \/ (sseConnection'.isOpen /\ wl' \in Running) ]_vars
    /\ []((wire # <<>> \/ cur # NoCur \/ ret.conn = "sseConnection")
            => committed = [sent |-> TRUE, by |-> "flush", hdrs |-> SSEHeaders])

C10_Witness ==
    /\ ret.conn = "sseConnection"
    /\ ~ctxDone
    /\ wl = "flush"

\* C11: a failed transport write returns nothing to any producer: the step of a
\* write, failed or not, leaves every producer where it is and no Send* returns
\* in it; a pending send() returns, with nil, in the step in which the loop
\* receives its message, before any write for it; a Send* returns nothing but
\* nil, "connection is closed" or the encoding error.
C11_WriteErrorNotPropagated ==
    [][ /\ wire' # wire => (pc' = pc /\ pend' = pend /\ last' = NoReturn)
        /\ \A p \in Producers :
              (pc[p] = "sending" /\ pc'[p] = "ready")
                  => /\ last' = Nil
                     /\ wl = "select" /\ cur'.tag.p = p /\ wire' = <<>>
        /\ last' \in {NoReturn, Nil, ErrClosed, ErrMarshal} ]_vars

C11_Witness ==
    /\ wl = "flush"
    /\ nfail > 0
    /\ pc[cur.tag.p] = "sending"

\* C12: while the writer loop holds a message whose data line is not written
\* yet, no step changes the id, the event or the bytes of the data slice that
\* the loop is going to write for it.
C12_ImmutableOnceSent ==
    [][ (wl \in {"id", "event", "data"} /\ wl' \in {"id", "event", "data"})
            => /\ cur'.id = cur.id
               /\ cur'.event = cur.event
               /\ cur'.data = cur.data
               /\ cur.data.ref \in Producers
                     => buf'[cur.data.ref] = buf[cur.data.ref] ]_vars

\* C13: from a wait (the select) that the writer loop is at with the request
\* context done, the loop receives no message and goes to no write: it stays
\* at the wait until it stops.
C13_HaltsOnDone ==
    [][ (ctxDone /\ wl = "select")
            => /\ wl' \in {"select", "stopped"}
               /\ cur' = NoCur
               /\ \A p \in Producers : ~(pc[p] = "sending" /\ pc'[p] = "ready") ]_vars

\* C14: once the Connection is made, isOpen is true exactly as long as the
\* writer loop has not stopped; the done branch of the select is the only step
\* that sets isOpen to false and the only one that stops the loop; isOpen does
\* not go back to true and a stopped loop stays stopped; a step of a producer
\* leaves isOpen as it is.
C14_IsOpenLifecycle ==
    /\ [](sseConnection.made => (sseConnection.isOpen <=> wl # "stopped"))
    /\ [][ /\ (sseConnection.isOpen /\ ~sseConnection'.isOpen)
                => (wl = "select" /\ ctxDone /\ wl' = "stopped" /\ pc' = pc)
           /\ (wl # "stopped" /\ wl' = "stopped")
                => (wl = "select" /\ ctxDone /\ ~sseConnection'.isOpen)
           /\ (~sseConnection.isOpen /\ sseConnection'.isOpen)
                => (upPc = "make" /\ ~sseConnection.made)
           /\ wl = "stopped" => wl' = "stopped"
           /\ (pc' # pc \/ bld' # bld \/ pend' # pend \/ buf' # buf
                   \/ last' \in {ErrClosed, ErrMarshal})
                => sseConnection' = sseConnection ]_vars

C14_Witness ==
    /\ wl = "stopped"
    /\ ~sseConnection.isOpen
    /\ last = ErrClosed
    /\ \E p \in Producers : pc[p] = "closing"
    /\ \E p \in Producers : bld[p] # NoMessage /\ bld[p].id # <<>>

\* where the loop goes after the write it is at
AfterWrite ==
    IF wl = "id" THEN AfterId(cur) ELSE IF wl = "event" THEN "data" ELSE "flush"

\* C15: a failed write, reported on the error channel or logged, takes the loop
\* to where a successful one takes it, with the message and isOpen unchanged;
\* the loop in the middle of a message can always take its next step, so that
\* after a failure the remaining lines are written and the flush takes the
\* loop back to the select.
C15_NoBlockOnError ==
    /\ [][ /\ (Len(wire') > Len(wire) /\ ~wire'[Len(wire')].ok)
                => /\ wire'[Len(wire')].report \in {"chan", "log"}
                   /\ wl' = AfterWrite
                   /\ cur' = cur
                   /\ sseConnection' = sseConnection
           /\ (wl = "flush" /\ wl' # "flush") => wl' = "select" ]_vars
    /\ [](wl \notin {"none", "stopped"} => wl \in Running)
    /\ [](wl \in {"id", "event", "data", "flush"}
            => ENABLED (WriteId \/ WriteEvent \/ WriteData \/ Flush))
    /\ []((wl = "flush" /\ nfail > 0)
            => /\ Written \in {IdPart(cur) \o EventPart(cur) \o DataPart(data) :
                                  data \in DataOf(cur)}
               /\ sseConnection.isOpen)

C15_Witness ==
    /\ wl = "flush"
    /\ Len(wire) = 3
    /\ ~wire[1].ok
    /\ wire[1].report = "log"
    /\ sseConnection.isOpen

\* C16: a send() that is at the channel send when the writer loop stops, or
\* gets there later, stays there: the step that stops the loop and every step
\* after it leave a pending send() pending, and the stopped loop holds and
\* receives no message.
C16_PendingSendBlocksForever ==
    /\ [][ wl' = "stopped"
              => /\ \A p \in Producers :
                       pc[p] = "sending" => (pc'[p] = "sending" /\ pend'[p] = pend[p])
                 /\ cur' = NoCur /\ wire' = <<>>
                 /\ done' = done
                 /\ last' # Nil ]_vars
    /\ [][ wl = "stopped" => wl' = "stopped" ]_vars

C16_Witness ==
    /\ wl = "stopped"
    /\ \A p \in Producers : pc[p] = "sending"
    /\ stale = {}

\* send() calls of producer p that have returned nil
Accepted(p) == seq[p] - (IF pc[p] = "sending" THEN 1 ELSE 0)

\* messages of producer p that the loop has written and flushed or is writing
Taken(p) == done[p] + (IF cur.tag.p = p THEN 1 ELSE 0)

\* C17: the send() calls of a producer that returned nil are as many as its
\* messages the loop has taken; a send() returns nil in the step in which the
\* loop, holding no message, takes that very message; every step of the loop
\* inside a message adds one Write call and goes on, never back and never to
\* a stop, request context done or not; the flush finds each line of the
\* message handed to the transport once and counts the message once.
C17_ExactlyOnce ==
    /\ [](\A p \in Producers : Accepted(p) = Taken(p))
    /\ [][ /\ \A p \in Producers :
                 (pc[p] = "sending" /\ pc'[p] = "ready")
                     => /\ last' = Nil /\ cur = NoCur
                        /\ cur'.tag.p = p /\ cur'.tag.n = seq[p]
                        /\ cur'.id = pend[p].id /\ cur'.event = pend[p].event
                        /\ cur'.data = pend[p].data
                        /\ \A q \in Producers \ {p} : pc'[q] = pc[q]
           /\ last' = Nil => \E p \in Producers : pc[p] = "sending" /\ pc'[p] = "ready"
           /\ (wl \in {"id", "event", "data"} /\ wl' # wl)
                 => /\ Len(wire') = Len(wire) + 1
                    /\ SubSeq(wire', 1, Len(wire)) = wire
                    /\ wl' = AfterWrite
                    /\ cur' = cur
           /\ (wl \in {"id", "event", "data"} /\ wl' = wl) => wire' = wire
           /\ (wl = "flush" /\ wl' # wl)
                 => /\ wl' = "select"
                    /\ done' = [done EXCEPT ![cur.tag.p] = @ + 1]
                    /\ \E data \in DataOf(cur) :
                          Written = IdPart(cur) \o EventPart(cur) \o DataPart(data) ]_vars
    /\ []((ctxDone /\ wl \in {"id", "event", "data", "flush"})
            => ENABLED (WriteId \/ WriteEvent \/ WriteData \/ Flush))

C17_Witness ==
    /\ ctxDone
    /\ wl = "flush"
    /\ cur.tag.n = 2
    /\ done[cur.tag.p] = 1
    /\ Len(wire) = 2

\* C18: the loop comes back to the select from a message only by the flush,
\* which counts the message; the data line, written or failed, leads to the
\* flush and the flush to the select; at the select, where alone the loop takes
\* a message, a shutdown signal or the done signal, no message is left
\* unflushed.
C18_FlushAfterEveryMessage ==
    /\ [][ /\ (wl # "select" /\ wl' = "select" /\ wl # "none")
                => /\ wl = "flush"
                   /\ done' = [done EXCEPT ![cur.tag.p] = @ + 1]
                   /\ committed'.sent
           /\ (wl = "data" /\ wl' # wl) => (wl' = "flush" /\ done' = done)
           /\ (wl = "flush" /\ wl' # wl) => wl' = "select"
           /\ done' # done => wl = "flush"
           /\ (\/ cur' \notin {cur, NoCur}
               \/ \E p \in Producers : pc[p] = "closing" /\ pc'[p] = "ready"
               \/ wl # "stopped" /\ wl' = "stopped")
                => (wl = "select" /\ cur = NoCur /\ wire = <<>>) ]_vars
    /\ [](wl \in {"select", "stopped"}
            => /\ cur = NoCur /\ wire = <<>>
               /\ \A p \in Producers : done[p] = Accepted(p))

C18_Witness ==
    /\ wl = "select"
    /\ done["p1"] = 1
    /\ done["p2"] = 1
    /\ \E p \in Producers : pc[p] = "closing"

\* C19: a Close() returns in a step in which the writer loop, at its select,
\* takes the shutdown signal, and in no other; with the loop scheduled and its
\* select fair, a pending Close() returns unless the loop stops first; from the
\* step that stops the loop on, a pending Close() stays pending.
C19_CloseReturns ==
    /\ \A p \in Producers :
          pc[p] = "closing" ~> (pc[p] = "ready" \/ wl = "stopped")
    /\ [][ /\ \A p \in Producers :
                 (pc[p] = "closing" /\ pc'[p] # "closing")
                     => (wl = "select" /\ wl' = "select" /\ pc'[p] = "ready"
                           /\ closeRet')
           /\ closeRet' # closeRet
                 => (wl = "select"
                       /\ \E p \in Producers : pc[p] = "closing" /\ pc'[p] = "ready")
           /\ wl' = "stopped"
                 => \A p \in Producers : pc[p] = "closing" => pc'[p] = "closing" ]_vars

C19_Witness ==
    /\ closeRet
    /\ wl = "stopped"
    /\ \A p \in Producers : pc[p] = "closing"

====
